---------------------------- MODULE Spec2Model ----------------------------
(***************************************************************************)
(* Visage voice-command dispatcher (src/src/index.ts): the transcription   *)
(* handler registered in MentraOSApp.onSession, its speculative pre-fire   *)
(* on partial events, the workflows dispatched on final events and the     *)
(* conversation collector with its 20 s timer.                             *)
(*                                                                         *)
(* Strings are sequences of one-character strings, so that toLowerCase,    *)
(* includes, the regular expressions of extractNameFromQuery and join are  *)
(* computed the way the code computes them.  An utterance is named in the  *)
(* state by its text (a TLA+ string); Chars gives its characters.          *)
(***************************************************************************)
EXTENDS Integers, Sequences, FiniteSets, TLC

\* ------------------------------------------------------------- bounds
\* Final events delivered in one behaviour when the collector is exercised
\* (SpecCollect) and when the speculation is (SpecSpeculate).
MaxFinals == 4

MaxSpecFinals == 2

\* Final events delivered in one behaviour when the dispatch is exercised
\* (SpecDispatch).
MaxDispatchFinals == 2

\* Final events delivered in one behaviour when the progress of the
\* dispatcher is exercised (SpecLive).
MaxLiveFinals == 3

\* Final events delivered in one behaviour when the classification of
\* partial events is exercised (SpecClassify).
MaxClassifyFinals == 2

\* Final events delivered in one behaviour when the Delete workflow is
\* exercised (SpecDelete).
MaxDeleteFinals == 5

\* Collaborator calls in flight at once.
MaxPending == 2

\* ------------------------------------------------------------ strings
UpperAlpha == <<"A","B","C","D","E","F","G","H","I","J","K","L","M",
                "N","O","P","Q","R","S","T","U","V","W","X","Y","Z">>

LowerAlpha == <<"a","b","c","d","e","f","g","h","i","j","k","l","m",
                "n","o","p","q","r","s","t","u","v","w","x","y","z">>

\* One character of String.prototype.toLowerCase.
LowerChar(c) ==
    IF \E i \in 1..Len(UpperAlpha) : UpperAlpha[i] = c
    THEN LowerAlpha[CHOOSE i \in 1..Len(UpperAlpha) : UpperAlpha[i] = c]
    ELSE c

\* One character of String.prototype.toUpperCase.
UpperChar(c) ==
    IF \E i \in 1..Len(LowerAlpha) : LowerAlpha[i] = c
    THEN UpperAlpha[CHOOSE i \in 1..Len(LowerAlpha) : LowerAlpha[i] = c]
    ELSE c

toLowerCase(s) == [i \in 1..Len(s) |-> LowerChar(s[i])]

\* s.startsWith(p, i-1): p occurs in s at (1-based) position i.
OccursAt(s, p, i) ==
    /\ i >= 1
    /\ i + Len(p) - 1 <= Len(s)
    /\ \A k \in 1..Len(p) : s[i + k - 1] = p[k]

\* String.prototype.includes
includes(s, p) == \E i \in 1..(Len(s) - Len(p) + 1) : OccursAt(s, p, i)

\* phrases.some(phrase => s.includes(phrase))
somePhrase(phrases, s) == \E p \in phrases : includes(s, p)

\* String.prototype.trim (the only white space in the alphabet is " ").
RECURSIVE trimStart(_)
trimStart(s) == IF s # <<>> /\ Head(s) = " " THEN trimStart(Tail(s)) ELSE s

RECURSIVE trimEnd(_)
trimEnd(s) ==
    IF s # <<>> /\ s[Len(s)] = " " THEN trimEnd(SubSeq(s, 1, Len(s) - 1)) ELSE s

trim(s) == trimEnd(trimStart(s))

\* An extraction that keeps the trailing punctuation.
keepTrailingPunctuation(s) == s

\* s.replace(/[?.!,]$/g, ''): "$" matches at the end only, so at most one
\* character goes.
TrailingPunctuation == {"?", ".", "!", ","}

stripTrailingPunctuation(s) ==
    IF s # <<>> /\ s[Len(s)] \in TrailingPunctuation
    THEN SubSeq(s, 1, Len(s) - 1)
    ELSE s

\* Array.prototype.join(' ') of a sequence of strings.
RECURSIVE join(_)
join(lines) ==
    IF lines = <<>> THEN <<>>
    ELSE IF Len(lines) = 1 THEN lines[1]
    ELSE lines[1] \o <<" ">> \o join(Tail(lines))

\* ------------------------------------------------------ phrase tables
REMEMBER_PHRASES ==
    { <<"w","h","a","t","'","s"," ","y","o","u","r"," ","n","a","m","e">>,
      <<"w","h","a","t"," ","i","s"," ","y","o","u","r"," ","n","a","m","e">>,
      <<"w","h","a","t"," ","w","a","s"," ","y","o","u","r"," ","n","a","m","e">>,
      <<"i"," ","d","o","n","'","t"," ","t","h","i","n","k"," ","w","e","'","v","e"," ","m","e","t">>,
      <<"i"," ","h","a","v","e","n","'","t"," ","m","e","t"," ","y","o","u"," ","b","e","f","o","r","e">>,
      <<"h","i"," ","i","'","m">>,
      <<"h","e","y"," ","i","'","m">>,
      <<"h","e","l","l","o"," ","i","'","m">> }

RECOGNIZE_PHRASES ==
    { <<"t","e","s","t"," ","r","e","c","o","g","n","i","t","i","o","n">>,
      <<"w","h","o"," ","i","s"," ","t","h","i","s">>,
      <<"w","h","o","'","s"," ","t","h","a","t">>,
      <<"w","h","o"," ","i","s"," ","t","h","a","t">>,
      <<"w","h","o","s"," ","t","h","a","t">>,
      <<"d","o"," ","i"," ","k","n","o","w"," ","t","h","e","m">>,
      <<"d","o"," ","i"," ","k","n","o","w"," ","t","h","a","t"," ","p","e","r","s","o","n">>,
      <<"d","o"," ","i"," ","k","n","o","w"," ","t","h","i","s"," ","p","e","r","s","o","n">>,
      <<"d","o"," ","y","o","u"," ","k","n","o","w"," ","t","h","i","s"," ","p","e","r","s","o","n">>,
      <<"h","a","v","e"," ","w","e"," ","m","e","t">> }

FAREWELL_PHRASES ==
    { <<"n","i","c","e"," ","t","o"," ","m","e","e","t"," ","y","o","u">>,
      <<"n","i","c","e"," ","m","e","e","t","i","n","g"," ","y","o","u">>,
      <<"c","a","t","c","h"," ","y","o","u"," ","l","a","t","e","r">>,
      <<"s","e","e"," ","y","o","u"," ","l","a","t","e","r">>,
      <<"g","o","o","d","b","y","e">>,
      <<"b","y","e">>,
      <<"b","y","e",","," ","i","'","l","l"," ","s","e","e"," ","y","o","u"," ","l","a","t","e","r">>,
      <<"l","a","t","e","r">>,
      <<"n","i","c","e"," ","t","o"," ","m","e","e","t"," ","y","o","u"," ","i","'","l","l"," ","s","e","e"," ","y","o","u"," ","l","a","t","e","r">>,
      <<"n","i","c","e"," ","t","o"," ","m","e","e","t"," ","y","o","u"," ","i","'","l","l"," ","c","a","t","c","h"," ","y","o","u"," ","l","a","t","e","r">>,
      <<"i","t"," ","w","a","s"," ","g","r","e","a","t"," ","t","o"," ","m","e","e","t"," ","y","o","u">>,
      <<"i","t"," ","w","a","s"," ","g","r","e","a","t"," ","t","o"," ","m","e","e","t"," ","y","o","u"," ","i","'","l","l"," ","s","e","e"," ","y","o","u"," ","l","a","t","e","r">>,
      <<"a","l","r","i","g","h","t"," ","t","h","e","n"," ","i","t"," ","w","a","s"," ","g","o","o","d"," ","t","o"," ","m","e","e","t"," ","y","o","u">> }

QUERY_PHRASES ==
    { <<"t","e","l","l"," ","m","e"," ","a","b","o","u","t">>,
      <<"w","h","o"," ","w","a","s">>,
      <<"r","e","m","i","n","d"," ","m","e"," ","a","b","o","u","t">>,
      <<"w","h","a","t"," ","d","o"," ","i"," ","k","n","o","w"," ","a","b","o","u","t">> }

DELETE_PHRASES ==
    { <<"f","o","r","g","e","t"," ","a","b","o","u","t">>,
      <<"f","o","r","g","e","t">>,
      <<"d","e","l","e","t","e">>,
      <<"r","e","m","o","v","e">> }

\* The characters of the utterances the transcription source delivers.
Chars ==
    ("who is this" :>
        <<"w","h","o"," ","i","s"," ","t","h","i","s">>) @@
    ("what's your name" :>
        <<"w","h","a","t","'","s"," ","y","o","u","r"," ","n","a","m","e">>) @@
    ("tell me about john" :>
        <<"t","e","l","l"," ","m","e"," ","a","b","o","u","t"," ","j","o","h","n">>) @@
    ("Tell me about John." :>
        <<"T","e","l","l"," ","m","e"," ","a","b","o","u","t"," ","J","o","h","n",".">>) @@
    ("tell me about jane" :>
        <<"t","e","l","l"," ","m","e"," ","a","b","o","u","t"," ","j","a","n","e">>) @@
    ("tell me about" :>
        <<"t","e","l","l"," ","m","e"," ","a","b","o","u","t">>) @@
    ("nice to meet you" :>
        <<"n","i","c","e"," ","t","o"," ","m","e","e","t"," ","y","o","u">>) @@
    ("i'm mark" :>
        <<"i","'","m"," ","m","a","r","k">>) @@
    ("forget about mark" :>
        <<"f","o","r","g","e","t"," ","a","b","o","u","t"," ","m","a","r","k">>) @@
    ("forget who is mark" :>
        <<"f","o","r","g","e","t"," ","w","h","o"," ","i","s"," ","m","a","r","k">>) @@
    ("tell me about who is this" :>
        <<"t","e","l","l"," ","m","e"," ","a","b","o","u","t"," ","w","h","o"," ","i","s"," ","t","h","i","s">>) @@
    ("forget who was mark" :>
        <<"f","o","r","g","e","t"," ","w","h","o"," ","w","a","s"," ","m","a","r","k">>) @@
    ("forget what's your name" :>
        <<"f","o","r","g","e","t"," ","w","h","a","t","'","s"," ","y","o","u","r"," ","n","a","m","e">>) @@
    ("tell me about what's your name" :>
        <<"t","e","l","l"," ","m","e"," ","a","b","o","u","t"," ","w","h","a","t","'","s"," ","y","o","u","r"," ","n","a","m","e">>) @@
    ("who is this what's your name" :>
        <<"w","h","o"," ","i","s"," ","t","h","i","s"," ","w","h","a","t","'","s"," ","y","o","u","r"," ","n","a","m","e">>)

Utterances == DOMAIN Chars

\* data.text.toLowerCase() of every utterance (lines 183, 244, 337).
Lower == [t \in Utterances |-> toLowerCase(Chars[t])]

\* --------------------------------------------------- extractNameFromQuery
\* The four regular expressions, each as the literal text that must precede
\* the capture group "(.+)"; the last one has the alternatives (?:is|was).
Patterns ==
    << << <<"t","e","l","l"," ","m","e"," ","a","b","o","u","t"," ">> >>,
       << <<"r","e","m","i","n","d"," ","m","e"," ","a","b","o","u","t"," ">> >>,
       << <<"w","h","a","t"," ","d","o"," ","i"," ","k","n","o","w"," ","a","b","o","u","t"," ">> >>,
       << <<"w","h","o"," ","i","s"," ">>, <<"w","h","o"," ","w","a","s"," ">> >> >>

\* An alternative of the pattern matches at position i with at least one
\* character left for "(.+)".
MatchesAt(s, alts, i) ==
    \E a \in 1..Len(alts) :
        OccursAt(s, alts[a], i) /\ i + Len(alts[a]) <= Len(s)

\* clean.match(pattern)[1]: the leftmost match, the group running greedily to
\* the end of the string; <<>> when the pattern does not match.
capture(s, alts) ==
    IF \E i \in 1..Len(s) : MatchesAt(s, alts, i)
    THEN LET i == CHOOSE i \in 1..Len(s) :
                     /\ MatchesAt(s, alts, i)
                     /\ \A j \in 1..(i - 1) : ~MatchesAt(s, alts, j)
             a == CHOOSE a \in 1..Len(alts) :
                     /\ OccursAt(s, alts[a], i) /\ i + Len(alts[a]) <= Len(s)
                     /\ \A b \in 1..(a - 1) :
                            ~(OccursAt(s, alts[b], i) /\ i + Len(alts[b]) <= Len(s))
         IN  SubSeq(s, i + Len(alts[a]), Len(s))
    ELSE <<>>

\* String.prototype.split(' ')
RECURSIVE split(_)
split(s) ==
    IF \E i \in 1..Len(s) : s[i] = " "
    THEN LET i == CHOOSE i \in 1..Len(s) :
                     s[i] = " " /\ \A j \in 1..(i - 1) : s[j] # " "
         IN  <<SubSeq(s, 1, i - 1)>> \o split(SubSeq(s, i + 1, Len(s)))
    ELSE <<s>>

\* word.charAt(0).toUpperCase() + word.slice(1)
capitalize(word) ==
    IF word = <<>> THEN <<>> ELSE <<UpperChar(word[1])>> \o Tail(word)

\* The name, or <<>> for "no name": the function returns null or (for a group
\* of blanks) '', and every caller tests the result for truthiness only.
extractNameFromQuery(query) ==
    LET clean == stripTrailingPunctuation(trim(toLowerCase(query)))
        hits  == {p \in 1..Len(Patterns) : capture(clean, Patterns[p]) # <<>>}
    IN  IF hits = {} THEN <<>>
        ELSE LET p     == CHOOSE p \in hits : \A q \in hits : p <= q
                 words == split(capture(clean, Patterns[p]))
             IN  trim(join([k \in 1..Len(words) |-> capitalize(words[k])]))

\* A caller that takes the whole text for the name when none is extracted.
NameOrText ==
    [t \in Utterances |->
        IF extractNameFromQuery(Lower[t]) = <<>>
        THEN Lower[t]
        ELSE extractNameFromQuery(Lower[t])]

\* extractNameFromQuery of every utterance, as the partial branch calls it
\* (on the lower-cased text, line 209) and as the workflows call it (on
\* command, lines 446 and 540); both pass data.text.toLowerCase().
NameIn == [t \in Utterances |-> extractNameFromQuery(Lower[t])]

\* ------------------------------------------------------------- state
VARIABLES
    conversationBuffer,      \* string[]: the texts pushed, in order
    isCollecting,            \* boolean
    capturedPhoto,           \* Buffer | null: the capture that produced it
    pendingRecognitionPhoto, \* Promise | null: utterance of the pre-capture, 0 = null
    pendingQueryFetch,       \* Promise | null: utterance of the pre-fetch, 0 = null
    pendingQueryName,        \* string | null: <<>> = null
    partialCommandFired,     \* 'recognize' | 'remember' | 'query' | null ("null")
    timers,                  \* pending setTimeout callbacks, oldest first: the
                             \* collection each was set for
    calls,                   \* collaborator calls in flight, and settled promises
                             \* a field still refers to
    utt,                     \* final events handled so far
    period,                  \* collections started so far
    received,                \* texts of the final events taken as lines of the
                             \* collection started last
    preFires,                \* speculative launches since the last final event
    exits,                   \* exits begun for the collection started last
    farewelled,              \* collections ended by a farewell line whose timer
                             \* is still pending
    trigger,                 \* the utterance whose final event started the
                             \* collection started last (0: none yet)
    queries,                 \* extractNameFromQuery: the arguments of the two
                             \* calls under comparison (<<>>: none made)
    names,                   \* and the names they returned
    step                     \* the latest step: its event, what it spoke and
                             \* which calls it launched

specVars == <<partialCommandFired, pendingRecognitionPhoto, pendingQueryFetch,
              pendingQueryName>>

collVars == <<isCollecting, conversationBuffer, capturedPhoto>>

ghostVars == <<utt, period, received, preFires, exits, farewelled, trigger,
               queries, names>>

vars == <<conversationBuffer, isCollecting, capturedPhoto,
          pendingRecognitionPhoto, pendingQueryFetch, pendingQueryName,
          partialCommandFired, timers, calls, utt, period, received, preFires,
          exits, farewelled, trigger, queries, names, step>>

\* capturedPhoto = null.
NullPhoto == [role |-> "null", utt |-> 0]

\* What the latest step did.  ev: "partial", "final", "timer", or the kind of
\* the call that settled; text, wf: the event's text and, for a final event,
\* the branch of the handler it took; of, out: the call that settled and how;
\* said, issued: the session.audio.speak calls and the collaborator calls the
\* step made.
NoCall ==
    [kind |-> "none", role |-> "none", text |-> <<>>, photo |-> NullPhoto,
     utt |-> 0, period |-> 0, timer |-> 0, st |-> "none", cont |-> "none"]

Step(ev, text, wf, said, issued) ==
    [ev |-> ev, text |-> text, wf |-> wf, of |-> NoCall, out |-> "",
     said |-> said, issued |-> issued]

Settle(k, out, said, issued) ==
    [ev |-> k.kind, text |-> "", wf |-> "", of |-> k, out |-> out,
     said |-> said, issued |-> issued]

\* The instance fields as constructed (lines 155-161); nothing scheduled,
\* called or spoken yet.
Init ==
    /\ conversationBuffer = <<>>
    /\ isCollecting = FALSE
    /\ capturedPhoto = NullPhoto
    /\ pendingRecognitionPhoto = 0
    /\ pendingQueryFetch = 0
    /\ pendingQueryName = <<>>
    /\ partialCommandFired = "null"
    /\ timers = <<>>
    /\ calls = {}
    /\ utt = 0
    /\ period = 0
    /\ received = <<>>
    /\ preFires = 0
    /\ exits = 0
    /\ farewelled = {}
    /\ trigger = 0
    /\ queries = <<>>
    /\ names = <<>>
    /\ step = Step("init", "", "", <<>>, {})

\* ------------------------------------------------------ bookkeeping
\* A collaborator call as launched.  kind: capture (camera.requestPhoto),
\* search, store (first-meeting), recognize, delete (the fetch calls) or
\* extract (extractPersonInfo).  role: which call site.  text: the name or
\* conversation passed; photo: the photo passed.  utt, period, timer: the
\* utterance, the collection and the timer the call is made for (0: none).
\* cont: which handler awaits the call ("none": not awaited).
NewCall(kind, role, text, photo, u, p, timer, cont) ==
    [kind |-> kind, role |-> role, text |-> text, photo |-> photo, utt |-> u,
     period |-> p, timer |-> timer, st |-> "pending", cont |-> cont]

\* A capture whose photo is lost on the way.
NoPhotoOf(k) == NullPhoto

\* The photo a capture resolves with.
PhotoOf(k) == [role |-> k.role, utt |-> k.utt]

\* The promise a field refers to: the pre-capture or pre-fetch of utterance u.
Promise(role, u) == CHOOSE k \in calls : k.role = role /\ k.utt = u

\* ------------------------------------------------- guards of the code
\* A handler without the guard of line 182.
NeverSuppressed == FALSE

\* Line 182: a partial event is dropped during collection.
PartialSuppressed == isCollecting

\* A handler that takes no final event as a line of the collection.
NeverCollecting == FALSE

\* Line 239: a final event during collection is a line of it.
Collecting == isCollecting

\* A handler whose three branches do not test partialCommandFired.
AlwaysFire == TRUE

\* Lines 185, 198, 208: nothing was pre-fired for this utterance yet.
NothingFired == partialCommandFired = "null"

\* A Query workflow that never looks at the pre-fetch, and one that awaits it
\* whatever name it was launched for.
NeverReuse(fetch, fetchName, name) == FALSE

ReuseAnyPrefetch(fetch, fetchName, name) == fetch # 0

\* Line 464: the pre-fetched response is awaited only for the same name.
ReusePrefetch(fetch, fetchName, name) == fetch # 0 /\ fetchName = name

\* Line 610: the pre-captured remember photo is reused.
ReusePrecapture(hadPartialFire) ==
    hadPartialFire = "remember" /\ capturedPhoto # NullPhoto

\* An exit that does not test the photo.
PhotoAssumed(photo) == FALSE

\* Lines 257, 650: !base64Image.
NoPhoto(photo) == photo = NullPhoto

\* An exit that leaves the collecting flag set.
ExitKeepsCollecting == UNCHANGED isCollecting

\* Lines 248, 641: the start of an exit; the flag is cleared before any await.
BeginExit == isCollecting' = FALSE

\* A reset that leaves pendingQueryName behind.
ResetWithoutName ==
    /\ partialCommandFired' = "null"
    /\ pendingRecognitionPhoto' = 0
    /\ pendingQueryFetch' = 0
    /\ UNCHANGED pendingQueryName

\* Lines 227-234: the final event's reset of the partial state.
ResetPartialState ==
    /\ partialCommandFired' = "null"
    /\ pendingRecognitionPhoto' = 0
    /\ pendingQueryFetch' = 0
    /\ pendingQueryName' = <<>>

\* ------------------------------------------------- spoken responses
\* Lines 480-533: the Query workflow's response to a search result.
QueryReply(out) ==
    CASE out = "ok"      -> "<name>. <context>"
      [] out = "nomatch" -> "I don't have any information about that person"
      [] out = "notok"   -> "I couldn't find that person"
      [] out \in {"fail", "badjson"} -> "I couldn't look that up right now"

\* Lines 382-438: the Recognize workflow's response to a recognition result.
RecognizeReply(out) ==
    CASE out = "ok"      -> "That's <name>. <context>"
      [] out = "nomatch" -> "I don't think we've met them before"
      [] out = "notok"   -> "Visage couldn't recognize this person"
      [] out = "fail"    -> "I couldn't recognize this person"

\* A Delete workflow that does not test response.ok.
DeleteReplyUntested(out) == "I've forgotten about <name>"

\* Lines 563-598: the Delete workflow's response.
DeleteReply(out) ==
    CASE out = "ok"    -> "I've forgotten about <name>"
      [] out = "notok" -> "I couldn't delete that person"
      [] out = "fail"  -> "I couldn't delete that person"

\* Lines 287-327 and 681-721: the response to the person store's answer.
StoreReply(role, out) ==
    CASE out = "ok" -> "Visage will remember <name>"
      [] out # "ok" /\ role = "farewell" -> "Visage couldn't save that information"
      [] out # "ok" /\ role = "timeout"  -> "Visage failed to save that information"

\* conversationBuffer.join(' ') (lines 249, 642).
Conversation(buffer) == join([k \in 1..Len(buffer) |-> Chars[buffer[k]]])

\* The tables as a dispatch that tests the Query phrases before the Recognize
\* phrases would see them.
MatchesQueryFirst ==
    [t \in Utterances |->
        [recognize |-> /\ somePhrase(RECOGNIZE_PHRASES, Lower[t])
                       /\ ~somePhrase(QUERY_PHRASES, Lower[t]),
         remember  |-> somePhrase(REMEMBER_PHRASES, Lower[t]),
         query     |-> somePhrase(QUERY_PHRASES, Lower[t]),
         delete    |-> somePhrase(DELETE_PHRASES, Lower[t]),
         farewell  |-> somePhrase(FAREWELL_PHRASES, Lower[t])]]

\* The tables as a partial branch that tests the Query phrases before the
\* Remember phrases would see them.
MatchesRememberLast ==
    [t \in Utterances |->
        [recognize |-> somePhrase(RECOGNIZE_PHRASES, Lower[t]),
         remember  |-> /\ somePhrase(REMEMBER_PHRASES, Lower[t])
                       /\ ~somePhrase(QUERY_PHRASES, Lower[t]),
         query     |-> somePhrase(QUERY_PHRASES, Lower[t]),
         delete    |-> somePhrase(DELETE_PHRASES, Lower[t]),
         farewell  |-> somePhrase(FAREWELL_PHRASES, Lower[t])]]

\* phrases.some(phrase => text.includes(phrase)) of every utterance, for the
\* five tables (lines 185, 198, 208, 247, 341, 443, 538, 605).
Matches ==
    [t \in Utterances |->
        [recognize |-> somePhrase(RECOGNIZE_PHRASES, Lower[t]),
         remember  |-> somePhrase(REMEMBER_PHRASES, Lower[t]),
         query     |-> somePhrase(QUERY_PHRASES, Lower[t]),
         delete    |-> somePhrase(DELETE_PHRASES, Lower[t]),
         farewell  |-> somePhrase(FAREWELL_PHRASES, Lower[t])]]

\* ------------------------------------------------------ partial events
\* Lines 181-224: the handler of an event with isFinal = false.
Partial(t) ==
    /\ UNCHANGED <<timers, isCollecting, conversationBuffer, utt, period,
                   received, exits, farewelled, trigger, queries, names>>
    /\ IF PartialSuppressed
       THEN /\ UNCHANGED <<specVars, capturedPhoto, calls, preFires>>
            /\ step' = Step("partial", t, "", <<>>, {})
       ELSE IF NothingFired /\ Matches[t].recognize
       THEN LET k == NewCall("capture", "specRecognize", <<>>, NullPhoto,
                             utt + 1, 0, 0, "none")
            IN  /\ partialCommandFired' = "recognize"
                /\ pendingRecognitionPhoto' = utt + 1
                /\ calls' = calls \cup {k}
                /\ preFires' = preFires + 1
                /\ step' = Step("partial", t, "", <<"Checking">>, {k})
                /\ UNCHANGED <<pendingQueryFetch, pendingQueryName, capturedPhoto>>
       ELSE IF NothingFired /\ Matches[t].remember
       THEN LET k == NewCall("capture", "specRemember", <<>>, NullPhoto,
                             utt + 1, 0, 0, "none")
            IN  /\ partialCommandFired' = "remember"
                /\ capturedPhoto' = NullPhoto
                /\ calls' = calls \cup {k}
                /\ preFires' = preFires + 1
                /\ step' = Step("partial", t, "", <<>>, {k})
                /\ UNCHANGED <<pendingRecognitionPhoto, pendingQueryFetch,
                               pendingQueryName>>
       ELSE IF NothingFired /\ Matches[t].query /\ NameIn[t] # <<>>
       THEN LET k == NewCall("search", "specQuery", NameIn[t], NullPhoto,
                             utt + 1, 0, 0, "none")
            IN  /\ partialCommandFired' = "query"
                /\ pendingQueryName' = NameIn[t]
                /\ pendingQueryFetch' = utt + 1
                /\ calls' = calls \cup {k}
                /\ preFires' = preFires + 1
                /\ step' = Step("partial", t, "", <<>>, {k})
                /\ UNCHANGED <<pendingRecognitionPhoto, capturedPhoto>>
       ELSE /\ UNCHANGED <<specVars, capturedPhoto, calls, preFires>>
            /\ step' = Step("partial", t, "", <<>>, {})

\* -------------------------------------------------------- final events
\* The calls still unsettled: once the final event has taken its snapshot
\* and reset the fields, a settled promise is reachable from the handler's
\* locals only.
Unsettled == {k \in calls : k.st = "pending"}

\* Lines 239-334: a final event during collection is buffered; a farewell
\* line starts the exit, up to the await of extractPersonInfo (line 252).
CollectLine(t, u) ==
    /\ conversationBuffer' = Append(conversationBuffer, t)
    /\ received' = Append(received, t)
    /\ IF Matches[t].farewell
       THEN LET k == NewCall("extract", "farewell",
                             Conversation(conversationBuffer'), NullPhoto,
                             u, period, 0, "exit")
            IN  /\ BeginExit
                /\ exits' = exits + 1
                /\ farewelled' = farewelled \cup {period}
                /\ calls' = Unsettled \cup {k}
                /\ step' = Step("final", t, "collect", <<>>, {k})
       ELSE /\ calls' = Unsettled
            /\ step' = Step("final", t, "collect", <<>>, {})
            /\ UNCHANGED <<isCollecting, exits, farewelled>>
    /\ UNCHANGED <<capturedPhoto, timers, period, trigger>>

\* Lines 341-364: the Recognize workflow up to its first await: of the
\* pre-captured photo when there is one (a promise already settled resumes at
\* once: only microtasks run in between), else of led.turnOff and a fresh
\* capture, taken as one call.
RecognizeWorkflow(t, u, pendingPhoto) ==
    /\ LET fresh == NewCall("capture", "recognize", <<>>, NullPhoto, u, 0, 0,
                            "recognize")
       IN  IF pendingPhoto = 0
           THEN /\ calls' = Unsettled \cup {fresh}
                /\ step' = Step("final", t, "recognize", <<>>, {fresh})
           ELSE LET p == Promise("specRecognize", pendingPhoto)
                    submit == NewCall("recognize", "workflow", <<>>, PhotoOf(p),
                                      u, 0, 0, "recognize")
                IN  IF p.st = "pending"
                    THEN /\ calls' = (Unsettled \ {p})
                                        \cup {[p EXCEPT !.cont = "recognize"]}
                         /\ step' = Step("final", t, "recognize", <<>>, {})
                    ELSE IF p.st = "ok"
                    THEN /\ calls' = Unsettled \cup {submit}
                         /\ step' = Step("final", t, "recognize", <<>>, {submit})
                    ELSE /\ calls' = Unsettled \cup {fresh}
                         /\ step' = Step("final", t, "recognize", <<>>, {fresh})
    /\ UNCHANGED <<collVars, timers, period, received, exits, farewelled,
                   trigger>>

\* A Query workflow without the test of line 448: it searches whatever
\* name it has.
QuerySearchesAnyName(t, u, fetch, fetchName) ==
    /\ LET name  == IF NameIn[t] # <<>> THEN NameIn[t] ELSE fetchName
           fresh == NewCall("search", "fresh", name, NullPhoto, u, 0, 0, "query")
       IN  /\ calls' = Unsettled \cup {fresh}
           /\ step' = Step("final", t, "query", <<>>, {fresh})
    /\ UNCHANGED <<collVars, timers, period, received, exits, farewelled,
                   trigger>>

\* A Query workflow without the fallback of line 446: the name comes from the
\* final utterance only.
QueryWithoutFallback(t, u, fetch, fetchName) ==
    /\ LET name  == NameIn[t]
           fresh == NewCall("search", "fresh", name, NullPhoto, u, 0, 0, "query")
       IN  IF name = <<>>
           THEN /\ calls' = Unsettled
                /\ step' = Step("final", t, "query",
                                <<"I didn't catch the name">>, {})
           ELSE IF ReusePrefetch(fetch, fetchName, name)
           THEN LET p == Promise("specQuery", fetch)
                IN  IF p.st = "pending"
                    THEN /\ calls' = (Unsettled \ {p})
                                        \cup {[p EXCEPT !.cont = "query"]}
                         /\ step' = Step("final", t, "query", <<>>, {})
                    ELSE IF p.st = "fail"
                    THEN /\ calls' = Unsettled \cup {fresh}
                         /\ step' = Step("final", t, "query", <<>>, {fresh})
                    ELSE /\ calls' = Unsettled
                         /\ step' = Step("final", t, "query",
                                         <<QueryReply(p.st)>>, {})
           ELSE /\ calls' = Unsettled \cup {fresh}
                /\ step' = Step("final", t, "query", <<>>, {fresh})
    /\ UNCHANGED <<collVars, timers, period, received, exits, farewelled,
                   trigger>>

\* Lines 443-478: the Query workflow up to its first await.
QueryWorkflow(t, u, fetch, fetchName) ==
    /\ LET name  == IF NameIn[t] # <<>> THEN NameIn[t] ELSE fetchName
           fresh == NewCall("search", "fresh", name, NullPhoto, u, 0, 0, "query")
       IN  IF name = <<>>
           THEN /\ calls' = Unsettled
                /\ step' = Step("final", t, "query",
                                <<"I didn't catch the name">>, {})
           ELSE IF ReusePrefetch(fetch, fetchName, name)
           THEN LET p == Promise("specQuery", fetch)
                IN  IF p.st = "pending"
                    THEN /\ calls' = (Unsettled \ {p})
                                        \cup {[p EXCEPT !.cont = "query"]}
                         /\ step' = Step("final", t, "query", <<>>, {})
                    ELSE IF p.st = "fail"
                    THEN /\ calls' = Unsettled \cup {fresh}
                         /\ step' = Step("final", t, "query", <<>>, {fresh})
                    ELSE /\ calls' = Unsettled
                         /\ step' = Step("final", t, "query",
                                         <<QueryReply(p.st)>>, {})
           ELSE /\ calls' = Unsettled \cup {fresh}
                /\ step' = Step("final", t, "query", <<>>, {fresh})
    /\ UNCHANGED <<collVars, timers, period, received, exits, farewelled,
                   trigger>>

\* A Delete workflow without the return of line 601: the handler goes on to
\* the Remember test as if it matched, and a collection starts.
DeleteFallsThrough(t, u) ==
    /\ LET k == NewCall("delete", "workflow", NameIn[t], NullPhoto, u,
                        0, 0, "delete")
       IN  /\ calls' = Unsettled \cup {k}
           /\ step' = Step("final", t, "delete", <<>>, {k})
    /\ isCollecting' = TRUE
    /\ conversationBuffer' = <<>>
    /\ period' = period + 1
    /\ received' = <<>>
    /\ exits' = 0
    /\ trigger' = u
    /\ timers' = Append(timers, period + 1)
    /\ UNCHANGED <<capturedPhoto, farewelled>>

\* Lines 538-561: the Delete workflow up to its await.
DeleteWorkflow(t, u) ==
    /\ IF NameIn[t] = <<>>
       THEN /\ calls' = Unsettled
            /\ step' = Step("final", t, "delete", <<"I didn't catch the name">>, {})
       ELSE LET k == NewCall("delete", "workflow", NameIn[t], NullPhoto, u,
                             0, 0, "delete")
            IN  /\ calls' = Unsettled \cup {k}
                /\ step' = Step("final", t, "delete", <<>>, {k})
    /\ UNCHANGED <<collVars, timers, period, received, exits, farewelled,
                   trigger>>

\* A Remember trigger that announces the collection it starts.
RememberTriggerSpeaks(t, u, hadPartialFire) ==
    /\ isCollecting' = TRUE
    /\ conversationBuffer' = <<>>
    /\ period' = period + 1
    /\ received' = <<>>
    /\ exits' = 0
    /\ trigger' = u
    /\ LET k == NewCall("capture", "remember", <<>>, NullPhoto, u,
                        period + 1, 0, "none")
       IN  /\ calls' = Unsettled \cup {k}
           /\ step' = Step("final", t, "remember", <<"I'm listening">>, {k})
    /\ timers' = Append(timers, period + 1)
    /\ UNCHANGED <<capturedPhoto, farewelled>>

\* A Remember trigger without the reset of line 608: the collection goes on
\* from whatever the buffer holds.
RememberTriggerKeepsBuffer(t, u, hadPartialFire) ==
    /\ isCollecting' = TRUE
    /\ UNCHANGED conversationBuffer
    /\ period' = period + 1
    /\ received' = <<>>
    /\ exits' = 0
    /\ trigger' = u
    /\ IF ReusePrecapture(hadPartialFire)
       THEN /\ calls' = Unsettled
            /\ step' = Step("final", t, "remember", <<>>, {})
       ELSE LET k == NewCall("capture", "remember", <<>>, NullPhoto, u,
                             period + 1, 0, "none")
            IN  /\ calls' = Unsettled \cup {k}
                /\ step' = Step("final", t, "remember", <<>>, {k})
    /\ timers' = Append(timers, period + 1)
    /\ UNCHANGED <<capturedPhoto, farewelled>>

\* Lines 605-731: the Remember trigger; nothing is awaited.
RememberTrigger(t, u, hadPartialFire) ==
    /\ isCollecting' = TRUE
    /\ conversationBuffer' = <<>>
    /\ period' = period + 1
    /\ received' = <<>>
    /\ exits' = 0
    /\ trigger' = u
    /\ IF ReusePrecapture(hadPartialFire)
       THEN /\ calls' = Unsettled
            /\ step' = Step("final", t, "remember", <<>>, {})
       ELSE LET k == NewCall("capture", "remember", <<>>, NullPhoto, u,
                             period + 1, 0, "none")
            IN  /\ calls' = Unsettled \cup {k}
                /\ step' = Step("final", t, "remember", <<>>, {k})
    /\ timers' = Append(timers, period + 1)
    /\ UNCHANGED <<capturedPhoto, farewelled>>

\* Lines 226-731: the handler of an event with isFinal = true, up to its
\* first await.
Final(t) ==
    /\ utt' = utt + 1
    /\ preFires' = 0
    /\ UNCHANGED <<queries, names>>
    /\ ResetPartialState
    /\ IF Collecting THEN CollectLine(t, utt + 1)
       ELSE IF Matches[t].recognize
            THEN RecognizeWorkflow(t, utt + 1, pendingRecognitionPhoto)
       ELSE IF Matches[t].query
            THEN QueryWorkflow(t, utt + 1, pendingQueryFetch, pendingQueryName)
       ELSE IF Matches[t].delete THEN DeleteWorkflow(t, utt + 1)
       ELSE IF Matches[t].remember
            THEN RememberTrigger(t, utt + 1, partialCommandFired)
       ELSE /\ calls' = Unsettled
            /\ step' = Step("final", t, "none", <<>>, {})
            /\ UNCHANGED <<collVars, timers, period, received, exits,
                           farewelled, trigger>>

\* ------------------------------------------------------------ the timer
\* Lines 639-645: the setTimeout callback, up to the await of
\* extractPersonInfo.  Timers of equal delay fire in the order they were set.
TimerFire ==
    /\ timers # <<>>
    /\ timers' = Tail(timers)
    /\ farewelled' = farewelled \ {Head(timers)}
    /\ IF isCollecting
       THEN LET k == NewCall("extract", "timeout",
                             Conversation(conversationBuffer), NullPhoto,
                             0, period, Head(timers), "exit")
            IN  /\ BeginExit
                /\ exits' = exits + 1
                /\ calls' = calls \cup {k}
                /\ step' = Step("timer", "", "", <<>>, {k})
       ELSE /\ step' = Step("timer", "", "", <<>>, {})
            /\ UNCHANGED <<isCollecting, exits, calls>>
    /\ UNCHANGED <<conversationBuffer, capturedPhoto, specVars, utt, period,
                   received, preFires, trigger, queries, names>>

\* ---------------------------------------------------------- sessions
\* Lines 172-179 and 736-750: a session starts on the one MentraOSApp
\* instance (line 753): the user id is stored, the transcription handler is
\* registered on the new session and the welcome is spoken.  No field of
\* lines 155-161 is assigned.
onSession ==
    /\ step' = Step("session", "", "",
                    <<"Welcome to Visage, your personal memory assistant">>, {})
    /\ UNCHANGED <<collVars, specVars, timers, calls, ghostVars>>

\* ------------------------------------------- collaborator completions
\* A call settles and the handler awaiting it (if any) runs to its next await
\* or to its end in the same step: the continuation is a microtask.
CaptureOutcomes == {"ok", "fail"}

\* camera.requestPhoto settles: lines 190-197 (pre-capture for Recognize),
\* 203-207 (pre-capture for Remember), 619-635 (capture of the Remember
\* trigger), 348-363 and 426-438 (the Recognize workflow's awaits).
CaptureDone(k, out) ==
    /\ k.st = "pending"
    /\ k.kind = "capture"
    /\ LET submit == NewCall("recognize", "workflow", <<>>, PhotoOf(k), k.utt,
                             0, 0, "recognize")
           fresh  == NewCall("capture", "recognize", <<>>, NullPhoto, k.utt,
                             0, 0, "recognize")
           rest   == calls \ {k}
       IN  CASE k.role = "specRecognize" /\ k.cont = "recognize" ->
                  LET next == IF out = "ok" THEN submit ELSE fresh
                  IN  /\ calls' = rest \cup {next}
                      /\ step' = Settle(k, out, <<>>, {next})
                      /\ UNCHANGED capturedPhoto
             [] k.role = "specRecognize" /\ k.cont # "recognize" ->
                  /\ calls' = IF pendingRecognitionPhoto = k.utt
                              THEN rest \cup {[k EXCEPT !.st = out]}
                              ELSE rest
                  /\ step' = Settle(k, out, <<>>, {})
                  /\ UNCHANGED capturedPhoto
             [] k.role = "specRemember" ->
                  /\ calls' = rest
                  /\ capturedPhoto' = IF out = "ok" THEN PhotoOf(k) ELSE capturedPhoto
                  /\ step' = Settle(k, out, <<>>, {})
             [] k.role = "remember" ->
                  /\ calls' = rest
                  /\ capturedPhoto' = IF out = "ok" THEN PhotoOf(k) ELSE capturedPhoto
                  /\ step' = Settle(k, out, IF out = "ok" THEN <<>>
                                  ELSE <<"Camera isn't available right now">>, {})
             [] k.role = "recognize" ->
                  /\ calls' = IF out = "ok" THEN rest \cup {submit} ELSE rest
                  /\ step' = IF out = "ok"
                             THEN Settle(k, out, <<>>, {submit})
                             ELSE Settle(k, out, <<RecognizeReply("fail")>>, {})
                  /\ UNCHANGED capturedPhoto
    /\ UNCHANGED <<isCollecting, conversationBuffer, specVars, timers, ghostVars>>

\* ok: 2xx with a person; nomatch: 2xx without one; notok: another status;
\* fail: the fetch rejects; badjson: 2xx whose body response.json() rejects.
SearchOutcomes == {"ok", "nomatch", "notok", "fail", "badjson"}

\* The search fetch settles: lines 214-220 (pre-fetch), 466-533 (the Query
\* workflow's awaits and responses).
SearchDone(k, out) ==
    /\ k.st = "pending"
    /\ k.kind = "search"
    /\ LET fresh == NewCall("search", "fresh", k.text, NullPhoto, k.utt, 0, 0,
                            "query")
           rest  == calls \ {k}
       IN  IF k.cont # "query"
           THEN /\ calls' = IF pendingQueryFetch = k.utt
                            THEN rest \cup {[k EXCEPT !.st = out]}
                            ELSE rest
                /\ step' = Settle(k, out, <<>>, {})
           ELSE IF out = "fail" /\ k.role = "specQuery"
           THEN /\ calls' = rest \cup {fresh}
                /\ step' = Settle(k, out, <<>>, {fresh})
           ELSE /\ calls' = rest
                /\ step' = Settle(k, out, <<QueryReply(out)>>, {})
    /\ UNCHANGED <<collVars, specVars, timers, ghostVars>>

\* extractPersonInfo returns (it never rejects: lines 49-66) and the exit
\* goes on to the photo test and the store request: lines 252-285 (farewell)
\* and 645-679 (timeout).
ExtractDone(k) ==
    /\ k.st = "pending"
    /\ k.kind = "extract"
    /\ IF NoPhoto(capturedPhoto)
       THEN /\ calls' = calls \ {k}
            /\ step' = Settle(k, "ok", <<"Visage couldn't capture a photo">>, {})
            /\ conversationBuffer' =
                  IF k.role = "timeout" THEN <<>> ELSE conversationBuffer
       ELSE LET store == NewCall("store", k.role, <<>>, capturedPhoto, k.utt,
                                 k.period, k.timer, "exit")
            IN  /\ calls' = (calls \ {k}) \cup {store}
                /\ step' = Settle(k, "ok", <<>>, {store})
                /\ UNCHANGED conversationBuffer
    /\ UNCHANGED <<isCollecting, capturedPhoto, specVars, timers, ghostVars>>

\* ok: 2xx; notok: another status; fail: the fetch or response.json() rejects.
StoreOutcomes == {"ok", "notok", "fail"}

\* The first-meeting request settles and the exit ends: lines 287-330
\* (farewell) and 681-724 (timeout).
StoreDone(k, out) ==
    /\ k.st = "pending"
    /\ k.kind = "store"
    /\ calls' = calls \ {k}
    /\ step' = Settle(k, out, <<StoreReply(k.role, out)>>, {})
    /\ conversationBuffer' = IF out = "notok" THEN conversationBuffer ELSE <<>>
    /\ capturedPhoto' =
          IF out # "notok" /\ k.role = "timeout" THEN NullPhoto ELSE capturedPhoto
    /\ UNCHANGED <<isCollecting, specVars, timers, ghostVars>>

\* ok: recognized with a person; nomatch: not recognized; notok: non-2xx;
\* fail: the fetch or response.json() rejects.
RecognizeOutcomes == {"ok", "nomatch", "notok", "fail"}

\* A Recognize workflow without the return of the non-2xx branch: it speaks
\* the failure response and goes on to the not-met response.
RecognizeDoneNoReturn(k, out) ==
    /\ k.st = "pending"
    /\ k.kind = "recognize"
    /\ calls' = calls \ {k}
    /\ step' = Settle(k, out,
                      IF out = "notok"
                      THEN <<RecognizeReply("notok"), RecognizeReply("nomatch")>>
                      ELSE <<RecognizeReply(out)>>, {})
    /\ UNCHANGED <<collVars, specVars, timers, ghostVars>>

\* The recognize request settles: lines 382-438.
RecognizeDone(k, out) ==
    /\ k.st = "pending"
    /\ k.kind = "recognize"
    /\ calls' = calls \ {k}
    /\ step' = Settle(k, out, <<RecognizeReply(out)>>, {})
    /\ UNCHANGED <<collVars, specVars, timers, ghostVars>>

DeleteOutcomes == {"ok", "notok", "fail"}

\* The delete request settles: lines 563-598.
DeleteDone(k, out) ==
    /\ k.st = "pending"
    /\ k.kind = "delete"
    /\ calls' = calls \ {k}
    /\ step' = Settle(k, out, <<DeleteReply(out)>>, {})
    /\ UNCHANGED <<collVars, specVars, timers, ghostVars>>

\* ------------------------------------------------------ specification
\* The collaborators keep up: a transcript event or a timer arrives only
\* while fewer than MaxPending calls are unsettled.
Quiet == Cardinality({k \in calls : k.st = "pending"}) < MaxPending

\* The completions of the calls the collector makes.
CollectorCompletes ==
    \/ \E k \in calls : \E out \in CaptureOutcomes : CaptureDone(k, out)
    \/ \E k \in calls : ExtractDone(k)
    \/ \E k \in calls : \E out \in StoreOutcomes : StoreDone(k, out)

\* The completions of the calls the workflows make.
WorkflowCompletes ==
    \/ \E k \in calls : \E out \in SearchOutcomes : SearchDone(k, out)
    \/ \E k \in calls : \E out \in RecognizeOutcomes : RecognizeDone(k, out)

\* The collector: a Remember trigger, plain lines and a farewell line.
CollectUtterances == {"what's your name", "i'm mark", "nice to meet you"}

NextCollect ==
    \/ \E t \in CollectUtterances : Quiet /\ Partial(t)
    \/ \E t \in CollectUtterances : Quiet /\ utt < MaxFinals /\ Final(t)
    \/ Quiet /\ TimerFire
    \/ CollectorCompletes

SpecCollect == Init /\ [][NextCollect]_vars

\* The speculation: the three speculatable intents, the same name twice
\* (once in another case and with punctuation) and another name.
SpeculateUtterances ==
    {"who is this", "what's your name", "tell me about john",
     "Tell me about John.", "tell me about jane"}

NextSpeculate ==
    \/ \E t \in SpeculateUtterances : Quiet /\ Partial(t)
    \/ \E t \in SpeculateUtterances : Quiet /\ utt < MaxSpecFinals /\ Final(t)
    \/ Quiet /\ TimerFire
    \/ CollectorCompletes
    \/ WorkflowCompletes

SpecSpeculate == Init /\ [][NextSpeculate]_vars

\* The completion of the call the Delete workflow makes.
DeleteCompletes ==
    \E k \in calls : \E out \in DeleteOutcomes : DeleteDone(k, out)

\* The dispatch: utterances with phrases of two intent families (Recognize and
\* Query, Query and Delete, Delete and Remember), one of a single family
\* each for Delete and Remember, and one of none; sessions start at any time.
DispatchUtterances ==
    {"who is this", "tell me about who is this", "forget who was mark",
     "forget what's your name", "forget who is mark", "what's your name",
     "i'm mark"}

NextDispatch ==
    \/ \E t \in DispatchUtterances : Quiet /\ Partial(t)
    \/ \E t \in DispatchUtterances : Quiet /\ utt < MaxDispatchFinals /\ Final(t)
    \/ Quiet /\ TimerFire
    \/ onSession
    \/ CollectorCompletes
    \/ WorkflowCompletes
    \/ DeleteCompletes

SpecDispatch == Init /\ [][NextDispatch]_vars

\* ------------------------------------------------------------ properties
\* C1: within one utterance (from one final event to the next) at most one
\* speculative side effect is launched; once one is launched, a further
\* partial event of that utterance changes no field, launches no call and
\* cancels none, however many partial events arrive and whatever they say.
C1_OneSpeculationPerUtterance ==
    /\ [](preFires <= 1)
    /\ [][(step'.ev = "partial" /\ partialCommandFired # "null")
            => /\ UNCHANGED <<specVars, collVars, calls, timers>>
               /\ step'.issued = {}
               /\ step'.said = <<>>]_vars

\* A partial event that matches a trigger arrives after a speculation was
\* launched in the same utterance, and launches nothing.
C1_SecondPartialIgnored ==
    /\ step.ev = "partial"
    /\ preFires = 1
    /\ partialCommandFired # "null"
    /\ ~isCollecting
    /\ \/ Matches[step.text].recognize
       \/ Matches[step.text].remember
       \/ Matches[step.text].query /\ NameIn[step.text] # <<>>
    /\ step.issued = {}

\* C2: the timer of a collection that a farewell line ended does nothing when
\* it fires: it ends no collection, reads no buffer and calls no collaborator,
\* also when a later collection is active by then.
C2_StaleTimerIsNoop ==
    [][(timers # <<>> /\ timers' = Tail(timers) /\ step'.ev = "timer"
          /\ Head(timers) \in farewelled)
         => /\ UNCHANGED <<collVars, calls>>
            /\ step'.issued = {}]_vars

\* C3 as stated: when a pre-fetch was launched for a name and the final event
\* of the utterance yields the same name, the Query workflow issues no second
\* search, at the final event or when the pre-fetch it awaits settles.
C3_NoSecondSearch ==
    [][/\ (step'.ev = "final" /\ step'.wf = "query" /\ pendingQueryFetch # 0
             /\ NameIn[step'.text] = pendingQueryName)
          => \A k \in step'.issued : k.kind # "search"
       /\ (step'.ev = "search" /\ step'.of.role = "specQuery"
             /\ step'.of.cont = "query")
          => \A k \in step'.issued : k.kind # "search"]_vars

\* C3: when a pre-fetch was launched for a name, the final event of the
\* utterance yields the same name and the pre-fetch resolves with a response
\* (the fetch does not reject), the Query workflow issues no second search
\* and speaks the answer that response gives.
C3_PrefetchReused ==
    [][/\ (step'.ev = "final" /\ step'.wf = "query" /\ pendingQueryFetch # 0
             /\ NameIn[step'.text] = pendingQueryName)
          => LET p == Promise("specQuery", pendingQueryFetch)
             IN  /\ p.text = NameIn[step'.text]
                 /\ p.st # "fail" => step'.issued = {}
                 /\ p.st = "pending"
                      => /\ [p EXCEPT !.cont = "query"] \in calls'
                         /\ step'.said = <<>>
                 /\ p.st \notin {"pending", "fail"}
                      => step'.said = <<QueryReply(p.st)>>
       /\ (step'.ev = "search" /\ step'.of.role = "specQuery"
             /\ step'.of.cont = "query" /\ step'.out # "fail")
          => /\ step'.issued = {}
             /\ step'.said = <<QueryReply(step'.out)>>]_vars

\* The pre-fetch the Query workflow awaits for the name of the final event
\* resolves with a person, and the workflow answers without a second search.
C3_AnsweredFromPrefetch ==
    /\ step.ev = "search"
    /\ step.of.role = "specQuery"
    /\ step.of.cont = "query"
    /\ step.out = "ok"
    /\ step.said = <<QueryReply("ok")>>
    /\ step.issued = {}
    /\ \A k \in calls : k.kind # "search"

\* The pre-fetch the Query workflow awaits rejects, and the workflow issues a
\* second search for the same name.
C3_RejectedPrefetch ==
    /\ step.ev = "search"
    /\ step.of.role = "specQuery"
    /\ step.of.cont = "query"
    /\ step.out = "fail"
    /\ \E k \in step.issued : k.kind = "search" /\ k.text = step.of.text

C5_NoPhotoNoStore ==
    [][(step'.ev = "extract" /\ capturedPhoto = NullPhoto)
         => /\ step'.issued = {}
            /\ step'.said = <<"Visage couldn't capture a photo">>
            /\ {k \in calls' : k.kind = "store"} \subseteq calls]_vars

\* The exit a farewell line began finds no photo and says so.
C5_FarewellWithoutPhoto ==
    /\ step.ev = "extract"
    /\ step.of.role = "farewell"
    /\ capturedPhoto = NullPhoto
    /\ step.said = <<"Visage couldn't capture a photo">>
    /\ step.issued = {}

\* C6: a collection is exited at most once, and the trigger that comes
\* second does no exit action: a timer firing for a collection that already
\* exited changes nothing and calls nothing, and a farewell line outside a
\* collection starts no exit.
C6_ExitOnceOtherTriggerIdle ==
    /\ [](exits <= 1)
    /\ [][/\ (timers # <<>> /\ timers' = Tail(timers) /\ step'.ev = "timer"
                /\ ~(isCollecting /\ Head(timers) = period))
             => /\ UNCHANGED <<collVars, calls>>
                /\ step'.issued = {}
          /\ (step'.ev = "final" /\ utt' = utt + 1 /\ ~isCollecting)
             => \A k \in step'.issued : k.kind # "extract"]_vars

\* C7: during a collection every final event's text is appended in arrival
\* order; the first line containing a farewell phrase ends the collection in
\* the step that handles it; and the conversation handed to extraction is
\* exactly the lines received in that collection, joined by single spaces.
C7_FarewellConversation ==
    [][(step'.ev = "final" /\ utt' = utt + 1 /\ isCollecting)
         => /\ conversationBuffer' = Append(conversationBuffer, step'.text)
            /\ Matches[step'.text].farewell
                 => /\ ~isCollecting'
                    /\ \E k \in calls' :
                          /\ step'.issued = {k}
                          /\ k.kind = "extract"
                          /\ k.text = Conversation(received')
            /\ ~Matches[step'.text].farewell
                 => isCollecting' /\ step'.issued = {}]_vars

\* C8 (its safety part): the exit a timer begins is begun by the timer set
\* for the collection it ends, and hands to extraction exactly the lines
\* received in that collection.
C8_OwnTimerEndsCollection ==
    [][\A k \in step'.issued :
          (k.kind = "extract" /\ k.role = "timeout")
             => /\ k.timer = k.period
                /\ k.text = Conversation(received)]_vars

\* C9: every final event leaves the four fields of the partial state at
\* their idle values, whichever branch handles it.
C9_IdleAfterFinal ==
    [][utt' = utt + 1
         => /\ partialCommandFired' = "null"
            /\ pendingRecognitionPhoto' = 0
            /\ pendingQueryFetch' = 0
            /\ pendingQueryName' = <<>>]_vars

\* A final event has just closed an utterance whose pre-fetch is still
\* pending, and the fields are idle.
C9_IdleWhilePrefetchPending ==
    /\ step.ev = "final"
    /\ \E k \in calls : k.role = "specQuery" /\ k.utt = utt /\ k.st = "pending"
    /\ partialCommandFired = "null"
    /\ pendingQueryFetch = 0
    /\ pendingQueryName = <<>>

\* C10: a partial event during a collection launches nothing, speaks nothing
\* and leaves the partial state and the collection state as they were.
C10_PartialIgnoredWhileCollecting ==
    [][(step'.ev = "partial" /\ isCollecting)
         => /\ UNCHANGED <<specVars, collVars, calls, timers>>
            /\ step'.issued = {}
            /\ step'.said = <<>>]_vars

\* A partial event with a Remember trigger has arrived during a collection.
C10_TriggerPartialWhileCollecting ==
    /\ step.ev = "partial"
    /\ isCollecting
    /\ Matches[step.text].remember
    /\ partialCommandFired = "null"
    /\ step.issued = {}

\* The intent families of whose table (lines 100-152) the lower-cased text of
\* an utterance contains a phrase.
IntentFamilies ==
    [t \in Utterances |->
        {f \in {"recognize", "query", "delete", "remember"} :
            somePhrase(CASE f = "recognize" -> RECOGNIZE_PHRASES
                         [] f = "query"     -> QUERY_PHRASES
                         [] f = "delete"    -> DELETE_PHRASES
                         [] f = "remember"  -> REMEMBER_PHRASES,
                       toLowerCase(Chars[t]))}]

\* C11: a final event outside collection runs the workflow of the first
\* family, in the order Recognize, Query, Delete, Remember, of which its
\* lower-cased text contains a phrase, and does nothing of a later family:
\* Recognize launches no search, Query no delete, Delete starts no collection.
\* "who is this" runs Recognize.
C11_HighestPriorityRuns ==
    [][(step'.ev = "final" /\ utt' = utt + 1 /\ ~isCollecting)
         => LET has   == IntentFamilies[step'.text]
                kinds == {k.kind : k \in step'.issued}
            IN  /\ step'.wf = IF "recognize" \in has THEN "recognize"
                              ELSE IF "query" \in has THEN "query"
                              ELSE IF "delete" \in has THEN "delete"
                              ELSE IF "remember" \in has THEN "remember"
                              ELSE "none"
                /\ step'.wf = "recognize"
                      => kinds \subseteq {"capture", "recognize"}
                /\ step'.wf = "query" => kinds \subseteq {"search"}
                /\ step'.wf = "delete" => kinds \subseteq {"delete"}
                /\ step'.wf \in {"recognize", "query", "delete"}
                      => UNCHANGED <<collVars, timers, period>>
                /\ step'.wf = "remember"
                      => isCollecting' /\ period' = period + 1
                /\ step'.text = "who is this" => step'.wf = "recognize"]_vars

\* A final event with a Recognize phrase and a Query phrase has run the
\* Recognize workflow: a capture was requested and no search.
C11_RecognizeBeforeQuery ==
    /\ step.ev = "final"
    /\ step.text = "tell me about who is this"
    /\ Matches[step.text].recognize
    /\ Matches[step.text].query
    /\ step.wf = "recognize"
    /\ \E k \in step.issued : k.kind = "capture"
    /\ \A k \in calls : k.kind # "search"

\* C12: a final event does at most one of: run Recognize, run Query, run
\* Delete, start a collection, be taken as a line of the collection; one
\* whose text has no phrase of any table, outside collection, launches no
\* call, speaks nothing and changes no field of the collector.
C12_AtMostOneBehaviour ==
    [][(step'.ev = "final" /\ utt' = utt + 1)
         => LET new  == calls' \ calls
                done == {b \in {"recognize", "query", "delete", "remember",
                                "collect"} :
                           CASE b = "recognize" ->
                                  \/ \E k \in new : k.cont = "recognize"
                                  \/ step'.wf = "recognize"
                             [] b = "query" ->
                                  \/ \E k \in new : k.cont = "query"
                                  \/ step'.wf = "query"
                             [] b = "delete" ->
                                  \/ \E k \in new : k.kind = "delete"
                                  \/ step'.wf = "delete"
                             [] b = "remember" ->
                                  \/ period' # period
                                  \/ timers' # timers
                                  \/ \E k \in new : k.role = "remember"
                                  \/ step'.wf = "remember"
                             [] b = "collect" ->
                                  \/ period' = period /\ received' # received
                                  \/ \E k \in new : k.kind = "extract"
                                  \/ step'.wf = "collect"}
            IN  /\ Cardinality(done) <= 1
                /\ Cardinality(step'.issued) <= 1
                /\ (~isCollecting /\ IntentFamilies[step'.text] = {})
                      => /\ done = {}
                         /\ step'.issued = {}
                         /\ new = {}
                         /\ step'.said = <<>>
                         /\ UNCHANGED <<collVars, timers>>]_vars

\* A final event whose text has no phrase of any table has arrived outside
\* collection while a pre-capture is pending, and nothing was launched.
C12_UnmatchedFinalIdle ==
    /\ step.ev = "final"
    /\ step.text = "i'm mark"
    /\ step.wf = "none"
    /\ ~isCollecting
    /\ step.issued = {}
    /\ step.said = <<>>
    /\ \E k \in calls : k.role = "specRemember" /\ k.st = "pending"

\* C13 as stated: a Recognize workflow submits exactly one photo to the
\* recognition service: it submits at most one request, with the photo of
\* the capture it awaited, and it ends (speaks its response) only when that
\* request has settled.
C13_ExactlyOnePhoto ==
    [][/\ (step'.ev = "capture" /\ step'.of.cont = "recognize")
          => \A k \in step'.issued :
                k.kind = "recognize"
                   => /\ step'.issued = {k}
                      /\ k.photo = [role |-> step'.of.role, utt |-> step'.of.utt]
       /\ (step'.said # <<>>
             /\ \/ step'.ev = "final" /\ step'.wf = "recognize"
                \/ step'.ev = "capture" /\ step'.of.cont = "recognize"
                \/ step'.ev = "recognize")
          => step'.ev = "recognize"]_vars

\* C13: a Recognize workflow submits at most one photo to the recognition
\* service.  A pre-capture that resolved or resolves with a photo is the one
\* submitted and no fresh capture is requested; with no pre-capture, or one
\* that failed, exactly one fresh capture is requested; the photo of a fresh
\* capture that succeeds is submitted, and when the fresh capture fails
\* nothing is submitted and the workflow speaks its failure response.
C13_PhotoReconciled ==
    [][/\ (step'.ev = "final" /\ step'.wf = "recognize")
          => /\ step'.said = <<>>
             /\ IF pendingRecognitionPhoto = 0
                THEN \E k \in calls' :
                        /\ step'.issued = {k}
                        /\ k.kind = "capture" /\ k.role = "recognize"
                ELSE LET p == Promise("specRecognize", pendingRecognitionPhoto)
                     IN  /\ p.st = "pending"
                              => /\ step'.issued = {}
                                 /\ [p EXCEPT !.cont = "recognize"] \in calls'
                         /\ p.st = "ok"
                              => \E k \in calls' :
                                    /\ step'.issued = {k}
                                    /\ k.kind = "recognize"
                                    /\ k.photo = [role |-> "specRecognize",
                                                  utt |-> p.utt]
                         /\ p.st = "fail"
                              => \E k \in calls' :
                                    /\ step'.issued = {k}
                                    /\ k.kind = "capture" /\ k.role = "recognize"
       /\ (step'.ev = "capture" /\ step'.of.cont = "recognize")
          => /\ step'.out = "ok"
                  => \E k \in calls' :
                        /\ step'.issued = {k}
                        /\ k.kind = "recognize"
                        /\ k.photo = [role |-> step'.of.role,
                                      utt |-> step'.of.utt]
             /\ (step'.out = "fail" /\ step'.of.role = "specRecognize")
                  => \E k \in calls' :
                        /\ step'.issued = {k}
                        /\ k.kind = "capture" /\ k.role = "recognize"
             /\ (step'.out = "fail" /\ step'.of.role = "recognize")
                  => /\ step'.issued = {}
                     /\ step'.said = <<"I couldn't recognize this person">>
       /\ step'.ev = "recognize" => step'.issued = {}]_vars

\* The pre-capture the Recognize workflow awaits resolves with a photo; that
\* photo is submitted and no fresh capture was requested.
C13_PrecaptureSubmitted ==
    /\ step.ev = "capture"
    /\ step.of.role = "specRecognize"
    /\ step.of.cont = "recognize"
    /\ step.out = "ok"
    /\ \E k \in step.issued :
          /\ k.kind = "recognize"
          /\ k.photo = [role |-> "specRecognize", utt |-> step.of.utt]
    /\ \A k \in calls : k.role # "recognize"

\* C14: when the Remember trigger fires on a final event, a fresh capture is
\* requested if and only if the pre-capture launched for that same utterance
\* has not resolved with a photo by then; when it has, its photo is
\* capturedPhoto and no capture is requested.
C14_FreshCaptureIffNoPrecapture ==
    [][(step'.ev = "final" /\ step'.wf = "remember")
         => LET own == [role |-> "specRemember", utt |-> utt']
            IN  /\ (\E k \in step'.issued : k.kind = "capture")
                      <=> capturedPhoto # own
                /\ capturedPhoto = own
                      => step'.issued = {} /\ capturedPhoto' = own]_vars

\* C15: when an exit has completed (the no-photo response or the response to
\* the store request was spoken), on the farewell path and on the timeout
\* path, the collector is inactive, the buffer is empty and capturedPhoto is
\* null.
C15_ExitClearsCollector ==
    [][(\/ step'.ev = "store"
        \/ step'.ev = "extract" /\ step'.issued = {})
         => /\ ~isCollecting'
            /\ conversationBuffer' = <<>>
            /\ capturedPhoto' = NullPhoto]_vars

\* C16: the photo an exit submits to the person store belongs to the
\* collection it ends: it is the photo of the pre-capture of that
\* collection's trigger utterance or of the capture started at its trigger.
\* When neither has produced a photo the exit submits nothing.
C16_OwnPhotoStored ==
    [][\A k \in step'.issued :
          (k.kind = "store" /\ k.period = period) => k.photo.utt = trigger]_vars

\* C17: at most one speculatively launched call (pre-capture or pre-fetch) is
\* unresolved at any time, also across final events.
C17_OneSpeculationInFlight ==
    Cardinality({k \in calls :
                    /\ k.role \in {"specRecognize", "specRemember", "specQuery"}
                    /\ k.st = "pending"}) <= 1

\* C18: when a session starts the partial state is idle and the collector is
\* inactive with an empty buffer and no photo, whatever an earlier session
\* left behind.
C18_SessionStartsClean ==
    [][step'.ev = "session"
         => /\ partialCommandFired' = "null"
            /\ pendingRecognitionPhoto' = 0
            /\ pendingQueryFetch' = 0
            /\ pendingQueryName' = <<>>
            /\ ~isCollecting'
            /\ conversationBuffer' = <<>>
            /\ capturedPhoto' = NullPhoto]_vars

\* C19: during a collection a final event is never dispatched to a workflow:
\* whatever trigger phrases its text contains, it is appended to the buffer
\* and tested for a farewell phrase, and it launches no capture, recognition,
\* search or delete call and starts no collection and no timer.
C19_LineNeverDispatched ==
    [][(step'.ev = "final" /\ utt' = utt + 1 /\ isCollecting)
         => /\ step'.wf = "collect"
            /\ conversationBuffer' = Append(conversationBuffer, step'.text)
            /\ \A k \in calls' \ calls : k.kind = "extract"
            /\ step'.issued # {} => Matches[step'.text].farewell
            /\ step'.said = <<>>
            /\ UNCHANGED <<capturedPhoto, timers, period, trigger>>]_vars

\* A final event whose text has a Recognize phrase and a Query phrase has
\* been taken as a line of the collection.
C19_TriggerPhraseBuffered ==
    /\ step.ev = "final"
    /\ step.wf = "collect"
    /\ step.text = "tell me about who is this"
    /\ IntentFamilies[step.text] = {"recognize", "query"}
    /\ isCollecting
    /\ conversationBuffer = <<step.text>>
    /\ step.issued = {}

C21_NoSpeechBeforeExit ==
    [][(\/ step'.ev = "final" /\ step'.wf \in {"remember", "collect"}
        \/ step'.ev = "timer"
        \/ step'.ev = "capture" /\ step'.of.role \in {"remember", "specRemember"})
         => step'.said = <<>>]_vars

\* C21: the Remember trigger speaks nothing at its final event, and neither
\* do the lines of the collection, the timer, or a capture that resolves; the
\* one speech act before the exit is "Camera isn't available right now", when
\* the capture started at the trigger fails.  An exit speaks exactly one
\* response, when it ends.
C21_OnlyCameraFailureSpoken ==
    [][/\ (\/ step'.ev = "final" /\ step'.wf \in {"remember", "collect"}
           \/ step'.ev = "timer"
           \/ step'.ev = "capture" /\ step'.of.role = "specRemember"
           \/ step'.ev = "capture" /\ step'.of.role = "remember"
                 /\ step'.out = "ok")
          => step'.said = <<>>
       /\ (step'.ev = "capture" /\ step'.of.role = "remember"
             /\ step'.out = "fail")
          => step'.said = <<"Camera isn't available right now">>
       /\ (step'.ev = "extract" /\ step'.issued # {}) => step'.said = <<>>
       /\ (\/ step'.ev = "extract" /\ step'.issued = {}
           \/ step'.ev = "store")
          => Len(step'.said) = 1]_vars

\* The capture started at the Remember trigger fails while its collection is
\* active, and the camera failure is spoken before any exit.
C21_CameraFailureSpoken ==
    /\ step.ev = "capture"
    /\ step.of.role = "remember"
    /\ step.of.period = period
    /\ step.out = "fail"
    /\ isCollecting
    /\ exits = 0
    /\ step.said = <<"Camera isn't available right now">>

\* ------------------------------------------------------------ progress
\* One utterance of each intent family and a farewell line.
LiveUtterances ==
    {"who is this", "tell me about john", "forget who is mark",
     "what's your name", "nice to meet you"}

\* The dispatcher with every workflow.  A timer set by setTimeout (line 639)
\* fires 20 s later whatever the collaborators do: it waits for no call.
NextLive ==
    \/ \E t \in LiveUtterances : Quiet /\ Partial(t)
    \/ \E t \in LiveUtterances : Quiet /\ utt < MaxLiveFinals /\ Final(t)
    \/ TimerFire
    \/ CollectorCompletes
    \/ WorkflowCompletes
    \/ DeleteCompletes

\* The event loop runs every callback setTimeout has scheduled.
SpecLive == Init /\ [][NextLive]_vars /\ WF_vars(TimerFire)

C23_SpeculativeFailureSilent ==
    [][/\ (step'.ev \in {"capture", "search"} /\ step'.out = "fail"
             /\ step'.of.role \in {"specRecognize", "specRemember", "specQuery"})
          => /\ step'.said = <<>>
             /\ step'.of.cont = "none" => step'.issued = {}
             /\ step'.of.cont = "recognize"
                  => \E k \in calls' :
                        /\ step'.issued = {k}
                        /\ k.kind = "capture" /\ k.role = "recognize"
             /\ step'.of.cont = "query"
                  => \E k \in calls' :
                        /\ step'.issued = {k}
                        /\ k.kind = "search" /\ k.role = "fresh"
                        /\ k.text = step'.of.text
       /\ (step'.ev = "final" /\ step'.wf = "recognize"
             /\ pendingRecognitionPhoto # 0
             /\ Promise("specRecognize", pendingRecognitionPhoto).st = "fail")
          => /\ step'.said = <<>>
             /\ \E k \in calls' :
                   /\ step'.issued = {k}
                   /\ k.kind = "capture" /\ k.role = "recognize"
       /\ (step'.ev = "final" /\ step'.wf = "query" /\ pendingQueryFetch # 0
             /\ Promise("specQuery", pendingQueryFetch).st = "fail"
             /\ NameIn[step'.text] = pendingQueryName)
          => /\ step'.said = <<>>
             /\ \E k \in calls' :
                   /\ step'.issued = {k}
                   /\ k.kind = "search" /\ k.role = "fresh"
                   /\ k.text = pendingQueryName
       /\ (step'.ev = "final" /\ step'.wf = "remember"
             /\ partialCommandFired = "remember"
             /\ capturedPhoto # [role |-> "specRemember", utt |-> utt']
             /\ \A k \in calls : ~(k.role = "specRemember" /\ k.utt = utt'))
          => /\ step'.said = <<>>
             /\ \E k \in calls' :
                   /\ step'.issued = {k}
                   /\ k.kind = "capture" /\ k.role = "remember"]_vars

\* C24: the Delete workflow with a name asks the store and speaks nothing
\* until the store has answered; on a non-success status (not-found
\* included) or a failed request it speaks "I couldn't delete that person"
\* and not the confirmation; the confirmation is spoken only on a success
\* status.
C24_DeleteConfirmedOnlyOnSuccess ==
    [][/\ (step'.ev = "final" /\ step'.wf = "delete"
             /\ NameIn[step'.text] # <<>>)
          => /\ step'.said = <<>>
             /\ \E k \in calls' :
                   /\ step'.issued = {k}
                   /\ k.kind = "delete"
                   /\ k.text = NameIn[step'.text]
       /\ step'.ev = "delete"
          => /\ step'.of.text # <<>>
             /\ step'.issued = {}
             /\ step'.out = "ok" => step'.said = <<"I've forgotten about <name>">>
             /\ step'.out # "ok" => step'.said = <<"I couldn't delete that person">>
       /\ (\E i \in 1..Len(step'.said) :
              step'.said[i] = "I've forgotten about <name>")
          => step'.ev = "delete" /\ step'.out = "ok"]_vars

\* The store has answered the request to delete Mark with a non-success
\* status, and the failure was spoken.
C24_NotFoundSpokenAsFailure ==
    /\ step.ev = "delete"
    /\ step.of.text = <<"M", "a", "r", "k">>
    /\ step.out = "notok"
    /\ step.said = <<"I couldn't delete that person">>
    /\ \A k \in calls : k.kind # "delete"

\* -------------------------------------------------------- classification
\* A Query phrase without a name and with one, utterances with phrases of
\* two speculatable intents (Recognize and Query, Remember and Query,
\* Recognize and Remember) and a Remember trigger alone.
ClassifyUtterances ==
    {"tell me about", "tell me about john", "tell me about who is this",
     "tell me about what's your name", "who is this what's your name",
     "what's your name"}

NextClassify ==
    \/ \E t \in ClassifyUtterances : Quiet /\ Partial(t)
    \/ \E t \in ClassifyUtterances : Quiet /\ utt < MaxClassifyFinals /\ Final(t)
    \/ Quiet /\ TimerFire
    \/ CollectorCompletes
    \/ WorkflowCompletes

SpecClassify == Init /\ [][NextClassify]_vars

\* C25: when the Query workflow finds no name in the final utterance and no
\* name was kept from a pre-fetch, it speaks "I didn't catch the name" and
\* launches no search; with a name from either it does not speak that.
C25_NoNameNoSearch ==
    [][(step'.ev = "final" /\ step'.wf = "query")
         => IF NameIn[step'.text] = <<>> /\ pendingQueryName = <<>>
            THEN /\ step'.said = <<"I didn't catch the name">>
                 /\ step'.issued = {}
                 /\ calls' \subseteq calls
                 /\ \A k \in calls' : k.cont # "query" \/ k.utt # utt'
            ELSE \A i \in 1..Len(step'.said) :
                    step'.said[i] # "I didn't catch the name"]_vars

\* The final event "tell me about" has run the Query workflow with no name
\* from a pre-fetch either, and no search is in flight.
C25_NameNotCaught ==
    /\ step.ev = "final"
    /\ step.text = "tell me about"
    /\ step.wf = "query"
    /\ NameIn[step.text] = <<>>
    /\ step.said = <<"I didn't catch the name">>
    /\ step.issued = {}
    /\ \A k \in calls : k.kind # "search"

\* ------------------------------------------------------ name extraction
\* The utterances handed to extractNameFromQuery: a text with a two-word
\* name, one with a one-word name and one with no name,
ExtractBases ==
    { <<"t","e","l","l"," ","m","e"," ","a","b","o","u","t"," ","j","o","h","n"," ","s","m","i","t","h">>,
      <<"w","h","o"," ","w","a","s"," ","m","a","r","k">>,
      <<"t","e","l","l"," ","m","e"," ","a","b","o","u","t">> }

\* written with capitals nowhere, everywhere, at the start, at the start of
\* every word and at the start of the words of the second half,
WordStarts(s) == {i \in 1..Len(s) : s[i] # " " /\ (i = 1 \/ s[i - 1] = " ")}

CaseSets(s) ==
    { {}, 1..Len(s), {1}, WordStarts(s), {i \in WordStarts(s) : 2 * i > Len(s)} }

Recase(s, P) == [i \in 1..Len(s) |-> IF i \in P THEN UpperChar(s[i]) ELSE s[i]]

\* and followed by at most two characters of punctuation or blanks.
Tails ==
    {<<>>} \cup {<<c>> : c \in TrailingPunctuation \cup {" "}}
           \cup {<<c, d>> : c \in {"?", " "}, d \in TrailingPunctuation \cup {" "}}

InputsOf(b) == {Recase(b, P) \o t : P \in CaseSets(b), t \in Tails}

ExtractInputs == UNION {InputsOf(b) : b \in ExtractBases}

\* extractNameFromQuery of every input (lines 69-94).
NameOf == [q \in ExtractInputs |-> extractNameFromQuery(q)]

\* Lines 69-94: extractNameFromQuery is called on two texts.
Extract(q1, q2) ==
    /\ queries = <<>>
    /\ queries' = <<q1, q2>>
    /\ names' = <<NameOf[q1], NameOf[q2]>>
    /\ UNCHANGED <<collVars, specVars, timers, calls, utt, period, received,
                   preFires, exits, farewelled, trigger, step>>

NextExtract == \E b \in ExtractBases : \E q1, q2 \in InputsOf(b) : Extract(q1, q2)

SpecExtract == Init /\ [][NextExtract]_vars

\* Two texts differ only in letter case and in one trailing punctuation
\* character: without that character, where a text has one, they are the
\* same up to case.
Folded == [q \in ExtractInputs |-> toLowerCase(q)]

Cores(s) ==
    {s} \cup IF s # <<>> /\ s[Len(s)] \in TrailingPunctuation
             THEN {SubSeq(s, 1, Len(s) - 1)}
             ELSE {}

DifferInCaseAndTrailing(q1, q2) == Cores(Folded[q1]) \cap Cores(Folded[q2]) # {}

\* The same, the common text not ending (blanks aside) in a punctuation
\* character itself.
EndsInPunctuation(s) ==
    LET t == trimEnd(s) IN t # <<>> /\ t[Len(t)] \in TrailingPunctuation

DifferInCaseAndOneTrailing(q1, q2) ==
    \E x \in Cores(Folded[q1]) \cap Cores(Folded[q2]) : ~EndsInPunctuation(x)

\* Every word of a name starts with something other than a small letter.
TitleCased(n) ==
    \A i \in 1..Len(n) :
        (i = 1 \/ n[i - 1] = " ")
           => \A k \in 1..Len(LowerAlpha) : LowerAlpha[k] # n[i]

C27_HandledToCompletion ==
    [][step'.ev \in {"partial", "final"}
         => \A k \in calls :
               (k.st = "pending" /\ k.cont # "none") => k.role = "timeout"]_vars

\* C28 (its particular case): the photo of a speculative Remember capture is
\* capturedPhoto during a collection only when the capture was launched for
\* the utterance that started the collection.  In the first collection no
\* earlier utterance finalized as Remember, so any other speculative photo
\* comes from an utterance that finalized as something else.
C28_SpeculativePhotoOfOwnUtterance ==
    (isCollecting /\ period = 1 /\ capturedPhoto.role = "specRemember")
       => capturedPhoto.utt = trigger

\* C29: a partial event outside collection, nothing pre-fired yet, launches
\* the side effect of the first intent, in the order Recognize, Remember,
\* Query, of which its text contains a phrase, and of no other: a
\* pre-capture for Recognize (with "Checking" spoken), else a pre-capture for
\* Remember, else a pre-fetch when a name is extracted, else nothing.
C29_PartialPriority ==
    [][(step'.ev = "partial" /\ ~isCollecting /\ partialCommandFired = "null")
         => LET has == IntentFamilies[step'.text]
                new == calls' \ calls
            IN  /\ step'.issued = new
                /\ Cardinality(new) <= 1
                /\ IF "recognize" \in has
                   THEN /\ \E k \in new : k.kind = "capture" /\ k.role = "specRecognize"
                        /\ partialCommandFired' = "recognize"
                        /\ UNCHANGED <<capturedPhoto, pendingQueryFetch,
                                       pendingQueryName>>
                   ELSE IF "remember" \in has
                   THEN /\ \E k \in new : k.kind = "capture" /\ k.role = "specRemember"
                        /\ partialCommandFired' = "remember"
                        /\ UNCHANGED <<pendingRecognitionPhoto, pendingQueryFetch,
                                       pendingQueryName>>
                   ELSE IF "query" \in has /\ NameIn[step'.text] # <<>>
                   THEN /\ \E k \in new : k.kind = "search" /\ k.role = "specQuery"
                        /\ partialCommandFired' = "query"
                        /\ UNCHANGED <<capturedPhoto, pendingRecognitionPhoto>>
                   ELSE new = {} /\ UNCHANGED <<specVars, capturedPhoto>>]_vars

\* A partial event with a Remember phrase and a Query phrase (and a name
\* after it) has launched the pre-capture for Remember and no search.
C29_RememberBeforeQuery ==
    /\ step.ev = "partial"
    /\ step.text = "tell me about what's your name"
    /\ IntentFamilies[step.text] = {"query", "remember"}
    /\ NameIn[step.text] # <<>>
    /\ partialCommandFired = "remember"
    /\ \E k \in step.issued : k.role = "specRemember"
    /\ pendingQueryFetch = 0
    /\ \A k \in calls : k.kind # "search"

\* The utterances from whose lower-cased text extractNameFromQuery (lines
\* 69-94) returns no name.
Nameless ==
    {t \in Utterances : extractNameFromQuery(toLowerCase(Chars[t])) = <<>>}

\* C30: a partial event outside collection, nothing pre-fired yet, whose text
\* has a Query phrase (and no Recognize or Remember phrase) but no name,
\* launches nothing, speaks nothing and leaves the partial state idle; a
\* partial event of the same utterance that does carry a name then launches
\* the pre-fetch.
C30_NamelessPartialStaysIdle ==
    [][(step'.ev = "partial" /\ ~isCollecting /\ partialCommandFired = "null"
          /\ IntentFamilies[step'.text] \cap {"recognize", "remember", "query"}
                = {"query"})
         => IF step'.text \in Nameless
            THEN /\ step'.issued = {}
                 /\ step'.said = <<>>
                 /\ calls' = calls
                 /\ partialCommandFired' = "null"
                 /\ preFires' = preFires
                 /\ UNCHANGED <<specVars, capturedPhoto>>
            ELSE /\ partialCommandFired' = "query"
                 /\ preFires' = preFires + 1
                 /\ \E k \in calls' \ calls :
                       /\ step'.issued = {k}
                       /\ k.kind = "search" /\ k.role = "specQuery"]_vars

\* The partial event "tell me about" has left the partial state idle, and a
\* partial event with a name can launch the pre-fetch of this utterance.
C30_IdleAfterNamelessPartial ==
    /\ step.ev = "partial"
    /\ step.text = "tell me about"
    /\ step.text \in Nameless
    /\ ~isCollecting
    /\ partialCommandFired = "null"
    /\ preFires = 0
    /\ pendingQueryFetch = 0
    /\ step.issued = {}
    /\ ENABLED (Partial("tell me about john") /\ partialCommandFired' = "query")

\* C31 as stated: when the final utterance of a Query yields no name and a
\* pre-fetch for a name is held, the workflow answers from that pre-fetch: it
\* launches no search of its own, at the final event or when the pre-fetch it
\* awaits settles, and does not speak "I didn't catch the name".
C31_AnsweredFromPendingSearch ==
    [][/\ (step'.ev = "final" /\ step'.wf = "query"
             /\ step'.text \in Nameless /\ pendingQueryName # <<>>)
          => /\ step'.issued = {}
             /\ \A i \in 1..Len(step'.said) :
                   step'.said[i] # "I didn't catch the name"
       /\ (step'.ev = "search" /\ step'.of.role = "specQuery"
             /\ step'.of.cont = "query")
          => step'.issued = {}]_vars

\* C31: when the final utterance of a Query yields no name and a pre-fetch
\* for the name N is held, the workflow does not speak "I didn't catch the
\* name" and answers for N: from the response of the pre-fetch when it
\* resolves with one, and from one fresh search for N when the pre-fetch
\* rejects.
C31_FallbackToPendingName ==
    [][/\ (step'.ev = "final" /\ step'.wf = "query"
             /\ step'.text \in Nameless /\ pendingQueryName # <<>>)
          => /\ pendingQueryFetch # 0
             /\ \A i \in 1..Len(step'.said) :
                   step'.said[i] # "I didn't catch the name"
             /\ LET p == Promise("specQuery", pendingQueryFetch)
                IN  /\ p.text = pendingQueryName
                    /\ p.st = "pending"
                         => /\ step'.issued = {}
                            /\ step'.said = <<>>
                            /\ [p EXCEPT !.cont = "query"] \in calls'
                    /\ p.st = "fail"
                         => /\ step'.said = <<>>
                            /\ \E k \in calls' :
                                  /\ step'.issued = {k}
                                  /\ k.kind = "search" /\ k.role = "fresh"
                                  /\ k.text = pendingQueryName
                    /\ p.st \notin {"pending", "fail"}
                         => /\ step'.issued = {}
                            /\ step'.said = <<QueryReply(p.st)>>
       /\ (step'.ev = "search" /\ step'.of.role = "specQuery"
             /\ step'.of.cont = "query")
          => IF step'.out = "fail"
             THEN /\ step'.said = <<>>
                  /\ \E k \in calls' :
                        /\ step'.issued = {k}
                        /\ k.kind = "search" /\ k.role = "fresh"
                        /\ k.text = step'.of.text
             ELSE /\ step'.issued = {}
                  /\ step'.said = <<QueryReply(step'.out)>>]_vars

\* The final event "tell me about" has run the Query workflow, which awaits
\* the pre-fetch for John that a partial event launched.
C31_AwaitsPrefetchForJohn ==
    /\ step.ev = "final"
    /\ step.text = "tell me about"
    /\ step.text \in Nameless
    /\ step.wf = "query"
    /\ step.said = <<>>
    /\ step.issued = {}
    /\ \E k \in calls :
          /\ k.role = "specQuery" /\ k.cont = "query" /\ k.st = "pending"
          /\ k.utt = utt
          /\ k.text = <<"J", "o", "h", "n">>

\* C32: an exit does the same on the farewell path as on the timeout path.
\* The timeout path (lines 645-724), for a buffer, a photo and the answers of
\* the collaborators: without a photo it calls nothing, speaks the no-photo
\* response and empties the buffer; with one it makes the store request with
\* that photo; on a non-success status it speaks a failure and leaves buffer
\* and photo; otherwise it speaks the success or failure response and
\* empties the buffer and clears the photo.  Every exit step, of either
\* path, does exactly this.
C32_SameExitOnBothPaths ==
    [][/\ step'.ev = "extract"
          => IF capturedPhoto = NullPhoto
             THEN /\ step'.issued = {}
                  /\ step'.said = <<"Visage couldn't capture a photo">>
                  /\ conversationBuffer' = <<>>
                  /\ capturedPhoto' = NullPhoto
             ELSE /\ \E k \in calls' :
                        /\ step'.issued = {k}
                        /\ k.kind = "store"
                        /\ k.photo = capturedPhoto
                  /\ step'.said = <<>>
                  /\ UNCHANGED <<conversationBuffer, capturedPhoto>>
       /\ step'.ev = "store"
          => /\ step'.issued = {}
             /\ Len(step'.said) = 1
             /\ step'.out = "ok" <=> step'.said[1] = "Visage will remember <name>"
             /\ IF step'.out = "notok"
                THEN UNCHANGED <<conversationBuffer, capturedPhoto>>
                ELSE conversationBuffer' = <<>> /\ capturedPhoto' = NullPhoto]_vars

\* --------------------------------------------------------------- delete
\* A Delete phrase followed by a name, and one with "who is" before the name.
DeleteUtterances == {"forget about mark", "forget who is mark"}

NextDelete ==
    \/ \E t \in DeleteUtterances : Quiet /\ Partial(t)
    \/ \E t \in DeleteUtterances : Quiet /\ utt < MaxDeleteFinals /\ Final(t)
    \/ DeleteCompletes

SpecDelete == Init /\ [][NextDelete]_vars

\* C33: the final event "forget about mark", a Delete phrase followed by a
\* name with no Recognize or Query phrase, runs the Delete workflow, which
\* takes the name Mark from it and makes one delete request for Mark.
C33_ForgetAboutMarkDeletes ==
    [][(step'.ev = "final" /\ step'.text = "forget about mark")
         => /\ step'.wf = "delete"
            /\ IntentFamilies[step'.text] = {"delete"}
            /\ \E k \in calls' :
                  /\ step'.issued = {k}
                  /\ k.kind = "delete"
                  /\ k.text = <<"M", "a", "r", "k">>]_vars

\* C34: while a collection is active, the completion of an exit of an earlier
\* collection (its extraction or its store request settles) leaves the buffer
\* of the active collection as it is and submits no photo of the active
\* collection to the person store.
C34_EarlierExitSparesNewCollection ==
    [][(/\ step'.ev \in {"extract", "store"}
        /\ isCollecting
        /\ step'.of.period # period)
         => /\ conversationBuffer' = conversationBuffer
            /\ \A k \in step'.issued :
                  k.kind = "store" => k.photo.utt # trigger]_vars

\* C35: whenever a collection is active the partial state is idle: no
\* speculation kind, no pending photo future, no pending search future and no
\* pending search name is recorded.
C35_IdleWhileCollecting ==
    isCollecting
       => /\ partialCommandFired = "null"
          /\ pendingRecognitionPhoto = 0
          /\ pendingQueryFetch = 0
          /\ pendingQueryName = <<>>

\* A partial event naming a speculatable intent has just arrived during a
\* collection.
C35_PartialDuringCollection ==
    /\ isCollecting
    /\ step.ev = "partial"
    /\ \/ Matches[step.text].recognize
       \/ Matches[step.text].query /\ NameIn[step.text] # <<>>

\* C36: the step that starts a collection leaves the buffer empty, whatever
\* the buffer held before; and the conversation an exit hands to extraction is
\* made of lines received in the collection it ends, in arrival order: it is
\* the join of the latest lines received in that collection (all of them, or
\* those after some point).
C36_FreshBufferOwnLines ==
    [][/\ (step'.ev = "final" /\ step'.wf = "remember")
            => isCollecting' /\ conversationBuffer' = <<>>
       /\ \A k \in step'.issued :
             k.kind = "extract"
                => \E n \in 0..Len(received') :
                      k.text = Conversation(SubSeq(received', n + 1,
                                                   Len(received')))]_vars

\* An earlier collection has exited and left lines in the buffer, and the
\* Remember trigger handled now starts a collection with an empty buffer.
C36_TriggerAfterUnclearedExit ==
    /\ ~isCollecting
    /\ period >= 1
    /\ conversationBuffer # <<>>
    /\ \A k \in calls : k.kind \notin {"extract", "store"}
    /\ ENABLED (/\ Final("what's your name")
                /\ isCollecting'
                /\ period' = period + 1
                /\ conversationBuffer' = <<>>)

\* C37: the fields of the partial state agree in every reachable state: a
\* pending photo future is held exactly when the recorded kind is recognize; a
\* pending search future and a pending search name are held exactly when the
\* kind is query, hence together; with the kind remember or none, none of the
\* three is held.
C37_SpeculationFieldsConsistent ==
    /\ pendingRecognitionPhoto # 0 <=> partialCommandFired = "recognize"
    /\ pendingQueryFetch # 0 <=> partialCommandFired = "query"
    /\ pendingQueryName # <<>> <=> partialCommandFired = "query"
    /\ partialCommandFired \in {"remember", "null"}
          => /\ pendingRecognitionPhoto = 0
             /\ pendingQueryFetch = 0
             /\ pendingQueryName = <<>>

\* After an earlier utterance was closed by its final event, a partial event
\* has just launched a pre-fetch, and the search future and name are held.
C37_QueryHeldAfterReset ==
    /\ utt >= 1
    /\ step.ev = "partial"
    /\ step.issued # {}
    /\ partialCommandFired = "query"
    /\ pendingQueryFetch = utt + 1
    /\ pendingQueryName = NameIn[step.text]

=============================================================================
